---- MODULE Spec2Model ----
(***************************************************************************)
(* A model of scripts/analysis.py, the leaf-lesion batch analysis script.  *)
(*                                                                         *)
(* Three specifications share the module's variables:                      *)
(*   Spec       one run of main(): set-up, the dataset loop of             *)
(*              analyse_dataset and the series loop of analyse_file;       *)
(*   SpecMkdir  calls of safe_mkdir on a small file system;                *)
(*   SpecImage  one call of analyse_image, statement by statement.         *)
(*                                                                         *)
(* A path is a sequence of names relative to the working directory, <<>>   *)
(* being the working directory itself.  The file system is the set `dirs`  *)
(* of directories and the function `files` from file paths to contents.    *)
(***************************************************************************)
EXTENDS Integers, Sequences, FiniteSets, TLC

VARIABLES
    pc,           \* position in the code
    args,         \* the parsed command line: debug, output_dir, input_is_dir
    dataset,      \* the dataset's items in the order of dataset.identifiers
                  \* (empty when input_dataset is no directory)
    dirs,         \* file system: the directories
    files,        \* file system: file path -> content
    fs0,          \* the file system before the run (history)
    log,          \* the entries the logging module has written to its file
    logFile,      \* the path logging.basicConfig opened, <<>> before that
    logLevel,     \* the root logger's level
    autoNameDir,  \* AutoName.directory
    autoWriteOn,  \* AutoWrite.on
    itemIdx,      \* analyse_dataset's position in dataset.identifiers
    itemDir,      \* specific_output_dir of the item being analysed
    collection,   \* the series of the loaded collection still to analyse
    trace,        \* every effect of the run, in order (history)
    mk,           \* SpecMkdir: the last safe_mkdir call and its outcome
    raw,          \* SpecImage: the image analyse_image was called with
    image,        \* SpecImage: the local variable image
    canvas,       \* SpecImage: the local variable canvas
    segmentation, \* SpecImage: the local variable segmentation
    todo,         \* SpecImage: identifiers the for loop has yet to visit
    ops           \* SpecImage: the library calls made so far (history)

vars == <<pc, args, dataset, dirs, files, fs0, log, logFile, logLevel,
          autoNameDir, autoWriteOn, itemIdx, itemDir, collection, trace,
          mk, raw, image, canvas, segmentation, todo, ops>>

runVars == <<args, dataset, fs0, log, logFile, logLevel, autoNameDir,
             autoWriteOn, itemIdx, itemDir, collection, trace>>

imageVars == <<raw, image, canvas, segmentation, todo, ops>>

(***************************************************************************)
(* Paths and the file system                                               *)
(***************************************************************************)

\* os.path.join of a path and a relative path
Join(a, b) == a \o b

Parent(p) == SubSeq(p, 1, Len(p) - 1)

IsPrefix(a, b) == Len(a) <= Len(b) /\ SubSeq(b, 1, Len(a)) = a

\* os.path.exists and os.path.isdir; the working directory always exists
Exists(d, f, p) == p = <<>> \/ p \in d \/ p \in DOMAIN f

IsDir(d, p) == p = <<>> \/ p \in d

\* a file system is well formed when every entry's parent is a directory
WellFormed(d, f) ==
    /\ d \cap DOMAIN f = {}
    /\ \A p \in d \cup DOMAIN f : Len(p) > 0 /\ IsDir(d, Parent(p))

\* os.mkdir(p): the new set of directories, or the errno of the OSError.
\* `fail` is a path at which the operating system refuses to create a
\* directory (EACCES: permissions, a read-only or full file system).
Mkdir(d, f, p, fail) ==
    IF Exists(d, f, p) THEN [dirs |-> d, err |-> "EEXIST"]
    ELSE IF Parent(p) \in DOMAIN f THEN [dirs |-> d, err |-> "ENOTDIR"]
    ELSE IF ~IsDir(d, Parent(p)) THEN [dirs |-> d, err |-> "ENOENT"]
    ELSE IF p = fail THEN [dirs |-> d, err |-> "EACCES"]
    ELSE [dirs |-> d \cup {p}, err |-> "ok"]

\* os.makedirs(p): creates the missing parents first; a FileExistsError of
\* a parent's creation is swallowed, every other error propagates.
RECURSIVE Makedirs(_, _, _, _)
Makedirs(d, f, p, fail) ==
    IF Len(p) > 1 /\ ~Exists(d, f, Parent(p))
    THEN LET r == Makedirs(d, f, Parent(p), fail)
         IN  IF r.err \in {"ok", "EEXIST"}
             THEN Mkdir(r.dirs, f, p, fail)
             ELSE r
    ELSE Mkdir(d, f, p, fail)

\* a plausible slip: every OSError of os.makedirs is swallowed
SafeMkdirSwallowsAll(d, f, p, fail) ==
    LET r == Makedirs(d, f, p, fail)
    IN  [dirs |-> r.dirs, raised |-> "none"]

\* safe_mkdir(directory): the new directories and the errno raised
SafeMkdir(d, f, p, fail) ==
    LET r == Makedirs(d, f, p, fail)
    IN  IF r.err = "ok" THEN [dirs |-> r.dirs, raised |-> "none"]
        ELSE IF r.err = "EEXIST" /\ IsDir(r.dirs, p)
             THEN [dirs |-> r.dirs, raised |-> "none"]
             ELSE [dirs |-> r.dirs, raised |-> r.err]

\* a plausible slip: the output directory is not part of the path
ItemOutputPathDropsRelPath(output_directory, rel_path) == output_directory

\* item_output_path's abs_path
ItemOutputPath(output_directory, rel_path) == Join(output_directory, rel_path)

(***************************************************************************)
(* SpecMkdir: safe_mkdir on a small file system                            *)
(***************************************************************************)

MaxDepth == 3

RECURSIVE Chain(_)
Chain(k) == IF k = 0 THEN <<>> ELSE Append(Chain(k - 1), "a")

\* the paths of the small file system: a chain a, a/a, ... and a sibling b
MkPaths == {Chain(k) : k \in 1..MaxDepth} \cup {<<"b">>}

NoPath == <<"">>

NullMk == [path |-> <<>>, fail |-> NoPath, before |-> {}, raised |-> "none"]

NullRun ==
    /\ args = [debug |-> FALSE, output_dir |-> <<>>, input_is_dir |-> FALSE]
    /\ dataset = <<>>
    /\ fs0 = [dirs |-> {}, files |-> <<>>]
    /\ log = <<>>
    /\ logFile = <<>>
    /\ logLevel = "WARNING"
    /\ autoNameDir = <<>>
    /\ autoWriteOn = TRUE
    /\ itemIdx = 0
    /\ itemDir = <<>>
    /\ collection = <<>>
    /\ trace = <<>>

NullImage ==
    /\ raw = <<>>
    /\ image = <<>>
    /\ canvas = [base |-> <<>>, masks |-> <<>>]
    /\ segmentation = <<>>
    /\ todo = {}
    /\ ops = <<>>

InitMkdir ==
    /\ pc = "mkdir"
    /\ dirs \in SUBSET MkPaths
    /\ \E fp \in SUBSET MkPaths : files = [p \in fp |-> "data"]
    /\ WellFormed(dirs, files)
    /\ mk = NullMk
    /\ NullRun
    /\ NullImage

\* one call safe_mkdir(p), the operating system refusing creation at `fail`
SafeMkdirCall ==
    /\ pc = "mkdir"
    /\ \E p \in MkPaths, fail \in MkPaths \cup {NoPath} :
         LET r == SafeMkdir(dirs, files, p, fail)
         IN  /\ dirs' = r.dirs
             /\ mk' = [path |-> p, fail |-> fail, before |-> dirs,
                       raised |-> r.raised]
    /\ UNCHANGED <<pc, files>>
    /\ UNCHANGED runVars
    /\ UNCHANGED imageVars

NextMkdir == SafeMkdirCall

SpecMkdir == InitMkdir /\ [][NextMkdir]_vars

(***************************************************************************)
(* Spec: one run of main()                                                 *)
(***************************************************************************)

MaxItems == 2
MaxSeries == 2

Digit(d) == <<"0", "1", "2", "3", "4", "5", "6", "7", "8", "9">>[d + 1]

RECURSIVE Decimal(_)
Decimal(n) == IF n < 10 THEN Digit(n) ELSE Decimal(n \div 10) \o Digit(n % 10)

\* "{:03d}".format(s): the decimal digits, zero-padded to three at least
Format03d(s) ==
    (IF s < 10 THEN "00" ELSE IF s < 100 THEN "0" ELSE "") \o Decimal(s)

\* "series_{:03d}_annotation.png".format(s)
AnnotationName(s) == "series_" \o Format03d(s) \o "_annotation.png"

\* a plausible slip: the series number is left out of the file name
AnnotationFileNameIgnoresSeries(output_directory, s) ==
    Join(output_directory, <<"series_annotation.png">>)

\* annotation_file_name of analyse_file
AnnotationFileName(output_directory, s) ==
    Join(output_directory, <<AnnotationName(s)>>)

\* a plausible slip: the log is opened in the working directory
AuditLogInCwd(output_dir) == <<"audit.log">>

\* log_fpath of main
LogFpath(output_dir) == Join(output_dir, <<"audit.log">>)

\* data_dir and backend_dir of get_microscopy_collection
DataDir == <<"output">>

BackendDir == Join(DataDir, <<".backend">>)

\* the directory the backend keeps for one loaded input file
BackendEntry(rel_path) == Join(BackendDir, <<"entry">> \o rel_path)

\* microscopy_collection.series of a collection of n series: 0 .. n-1
Series(n) == [k \in 1..n |-> k - 1]

\* relative paths of a dataset's items: files of one directory tree, so no
\* relpath is a prefix of another
RelPaths == {<<"a">>, <<"b">>, <<"d", "c">>}

Items == [relpath : RelPaths, nseries : 0..MaxSeries]

Datasets ==
    {ds \in UNION {[1..n -> Items] : n \in 0..MaxItems} :
        \A i, j \in DOMAIN ds : i # j => ds[i].relpath # ds[j].relpath}

OutputDirs == {<<"out">>, <<"output">>}

\* what output_dir may hold before the run: nothing, an empty directory,
\* the results of an earlier run on another dataset, a file where an
\* item's directory would go, or a file where output_dir itself would go
InitialFileSystems(o) ==
    { [dirs |-> {}, files |-> <<>>],
      [dirs |-> {o}, files |-> <<>>],
      [dirs |-> {o, Join(o, <<"a">>)},
       files |-> (LogFpath(o) :> "log") @@
                 (AnnotationFileName(Join(o, <<"a">>), 7) :> "stale")],
      [dirs |-> {o}, files |-> (Join(o, <<"a">>) :> "data")],
      [dirs |-> {}, files |-> (o :> "data")] }

Event(ev, item, path) == [ev |-> ev, item |-> item, path |-> path]

Init ==
    /\ pc = "main"
    /\ args \in [debug : BOOLEAN, output_dir : OutputDirs,
                 input_is_dir : BOOLEAN]
    /\ dataset \in IF args.input_is_dir THEN Datasets ELSE {<<>>}
    /\ fs0 \in InitialFileSystems(args.output_dir)
    /\ dirs = fs0.dirs
    /\ files = fs0.files
    /\ log = <<>>
    /\ logFile = <<>>
    /\ logLevel = "WARNING"
    /\ autoNameDir = <<>>
    /\ autoWriteOn = TRUE
    /\ itemIdx = 0
    /\ itemDir = <<>>
    /\ collection = <<>>
    /\ trace = <<>>
    /\ mk = NullMk
    /\ NullImage

\* an exception nobody catches ends the run
Raise(item, path) ==
    /\ pc' = "crashed"
    /\ trace' = Append(trace, Event("raise", item, path))

\* main: create the output directory if it does not exist
MainOutputDir ==
    /\ pc = "main"
    /\ LET o == args.output_dir
           r == Mkdir(dirs, files, o, NoPath)
       IN  IF IsDir(dirs, o)
           THEN /\ autoNameDir' = o
                /\ pc' = "main_autowrite"
                /\ UNCHANGED <<dirs, trace>>
           ELSE IF r.err = "ok"
           THEN /\ dirs' = r.dirs
                /\ autoNameDir' = o
                /\ pc' = "main_autowrite"
                /\ trace' = Append(trace, Event("mkdir", <<>>, o))
           ELSE /\ Raise(<<>>, o)
                /\ UNCHANGED <<dirs, autoNameDir>>
    /\ UNCHANGED <<args, dataset, files, fs0, log, logFile, logLevel,
                   autoWriteOn, itemIdx, itemDir, collection, mk>>
    /\ UNCHANGED imageVars

\* a plausible slip: the test of args.debug is inverted
AutoWriteInverted(debug, on) == IF debug THEN FALSE ELSE on

\* AutoWrite.on after "if not args.debug: AutoWrite.on = False"
AutoWriteSetting(debug, on) == IF ~debug THEN FALSE ELSE on

\* main: only write out intermediate images in debug mode
MainAutoWrite ==
    /\ pc = "main_autowrite"
    /\ autoWriteOn' = AutoWriteSetting(args.debug, autoWriteOn)
    /\ pc' = "main_logging"
    /\ UNCHANGED <<args, dataset, dirs, files, fs0, log, logFile, logLevel,
                   autoNameDir, itemIdx, itemDir, collection, trace, mk>>
    /\ UNCHANGED imageVars

\* main: logging.basicConfig opens (creates) the log file and sets the level
MainLogging ==
    /\ pc = "main_logging"
    /\ LET f == LogFpath(args.output_dir)
       IN  /\ logFile' = f
           /\ files' = IF f \in DOMAIN files THEN files
                       ELSE files @@ (f :> "log")
           /\ trace' = Append(trace, Event("config_log", <<>>, f))
    /\ logLevel' = IF args.debug THEN "DEBUG" ELSE "INFO"
    /\ pc' = "main_info"
    /\ UNCHANGED <<args, dataset, dirs, fs0, log, autoNameDir, autoWriteOn,
                   itemIdx, itemDir, collection, mk>>
    /\ UNCHANGED imageVars

\* logging.info(message): written to the log file at levels DEBUG and INFO
LoggingInfo(entries, message) ==
    IF logLevel \in {"DEBUG", "INFO"} THEN Append(entries, message)
    ELSE entries

\* main: log the script's name and version
MainLogInfo ==
    /\ pc = "main_info"
    /\ log' = LoggingInfo(LoggingInfo(log, <<"Script name">>),
                          <<"Script version">>)
    /\ trace' = trace \o <<Event("log", <<>>, <<"Script name">>),
                           Event("log", <<>>, <<"Script version">>)>>
    /\ pc' = "main_run"
    /\ UNCHANGED <<args, dataset, dirs, files, fs0, logFile, logLevel,
                   autoNameDir, autoWriteOn, itemIdx, itemDir, collection,
                   mk>>
    /\ UNCHANGED imageVars

\* a plausible slip: the analysis runs whatever input_dataset is
InputAcceptedAlways(a) == TRUE

\* os.path.isdir(args.input_dataset)
InputAccepted(a) == a.input_is_dir

\* main: run the analysis, or end in parser.error
MainRun ==
    /\ pc = "main_run"
    /\ pc' = IF InputAccepted(args) THEN "dataset" ELSE "argerror"
    /\ UNCHANGED <<args, dataset, dirs, files, fs0, log, logFile, logLevel,
                   autoNameDir, autoWriteOn, itemIdx, itemDir, collection,
                   trace, mk>>
    /\ UNCHANGED imageVars

\* analyse_dataset: DataSet.from_uri, which raises when the directory is
\* not a dataset, and the log entry naming the dataset
OpenDataset ==
    /\ pc = "dataset"
    /\ \/ /\ log' = LoggingInfo(log, <<"Analysing items in dataset">>)
          /\ trace' = Append(trace, Event("log", <<>>,
                                          <<"Analysing items in dataset">>))
          /\ itemIdx' = 1
          /\ pc' = "item"
       \/ /\ Raise(<<>>, <<"DataSet.from_uri">>)
          /\ UNCHANGED <<log, itemIdx>>
    /\ UNCHANGED <<args, dataset, dirs, files, fs0, logFile, logLevel,
                   autoNameDir, autoWriteOn, itemDir, collection, mk>>
    /\ UNCHANGED imageVars

\* analyse_dataset, loop body up to item_output_path: the item's output
\* directory is created, or safe_mkdir's OSError ends the run
ItemOutput ==
    /\ pc = "item"
    /\ itemIdx <= Len(dataset)
    /\ LET rel == dataset[itemIdx].relpath
           abs_path == ItemOutputPath(args.output_dir, rel)
           r == SafeMkdir(dirs, files, abs_path, NoPath)
       IN  /\ dirs' = r.dirs
           /\ IF r.raised = "none"
              THEN /\ itemDir' = abs_path
                   /\ trace' = Append(trace, Event("item_dir", rel, abs_path))
                   /\ pc' = "file"
              ELSE /\ Raise(rel, abs_path)
                   /\ UNCHANGED itemDir
    /\ UNCHANGED <<args, dataset, files, fs0, log, logFile, logLevel,
                   autoNameDir, autoWriteOn, itemIdx, collection, mk>>
    /\ UNCHANGED imageVars

\* analyse_dataset: dataset.identifiers is exhausted, main returns
DatasetDone ==
    /\ pc = "item"
    /\ itemIdx > Len(dataset)
    /\ pc' = "done"
    /\ UNCHANGED <<args, dataset, dirs, files, fs0, log, logFile, logLevel,
                   autoNameDir, autoWriteOn, itemIdx, itemDir, collection,
                   trace, mk>>
    /\ UNCHANGED imageVars

\* analyse_file: the log entry and AutoName.directory
AnalyseFileStart ==
    /\ pc = "file"
    /\ LET rel == dataset[itemIdx].relpath
       IN  /\ log' = LoggingInfo(log, <<"Analysing file">> \o rel)
           /\ trace' = Append(trace, Event("log", rel,
                                           <<"Analysing file">> \o rel))
    /\ autoNameDir' = itemDir
    /\ pc' = "load"
    /\ UNCHANGED <<args, dataset, dirs, files, fs0, logFile, logLevel,
                   autoWriteOn, itemIdx, itemDir, collection, mk>>
    /\ UNCHANGED imageVars

\* get_microscopy_collection: the data and backend directories are created
\* if missing, then the file is converted into the backend and loaded, or
\* the conversion raises
GetMicroscopyCollection ==
    /\ pc = "load"
    /\ LET rel == dataset[itemIdx].relpath
           d1 == IF IsDir(dirs, DataDir) THEN dirs
                 ELSE Mkdir(dirs, files, DataDir, NoPath).dirs
           d2 == d1 \cup {BackendDir}
       IN  \/ /\ dirs' = d2 \cup {BackendEntry(rel)}
              /\ collection' = Series(dataset[itemIdx].nseries)
              /\ trace' = Append(trace, Event("load", rel, BackendEntry(rel)))
              /\ pc' = "series"
           \/ /\ dirs' = d2
              /\ Raise(rel, BackendDir)
              /\ UNCHANGED collection
    /\ UNCHANGED <<args, dataset, files, fs0, log, logFile, logLevel,
                   autoNameDir, autoWriteOn, itemIdx, itemDir, mk>>
    /\ UNCHANGED imageVars

\* analyse_file, loop body: the series' image is analysed and its
\* annotation written, or the analysis raises
AnalyseSeries ==
    /\ pc = "series"
    /\ collection # <<>>
    /\ LET rel == dataset[itemIdx].relpath
           s == Head(collection)
           annotation_file_name == AnnotationFileName(itemDir, s)
       IN  \/ /\ files' = [p \in DOMAIN files \cup {annotation_file_name} |->
                             IF p = annotation_file_name THEN "annotation"
                             ELSE files[p]]
              /\ trace' = Append(trace,
                                 Event("write", rel, annotation_file_name))
              /\ collection' = Tail(collection)
              /\ pc' = "series"
           \/ /\ Raise(rel, annotation_file_name)
              /\ UNCHANGED <<files, collection>>
    /\ UNCHANGED <<args, dataset, dirs, fs0, log, logFile, logLevel,
                   autoNameDir, autoWriteOn, itemIdx, itemDir, mk>>
    /\ UNCHANGED imageVars

\* a plausible slip: the loop over the identifiers skips one
NextIdentifierSkips(i) == i + 2

\* the for loop of analyse_dataset moves to the next identifier
NextIdentifier(i) == i + 1

\* analyse_file returns: microscopy_collection.series is exhausted
FileDone ==
    /\ pc = "series"
    /\ collection = <<>>
    /\ itemIdx' = NextIdentifier(itemIdx)
    /\ pc' = "item"
    /\ UNCHANGED <<args, dataset, dirs, files, fs0, log, logFile, logLevel,
                   autoNameDir, autoWriteOn, itemDir, collection, trace, mk>>
    /\ UNCHANGED imageVars

Next ==
    \/ MainOutputDir
    \/ MainAutoWrite
    \/ MainLogging
    \/ MainLogInfo
    \/ MainRun
    \/ OpenDataset
    \/ ItemOutput
    \/ DatasetDone
    \/ AnalyseFileStart
    \/ GetMicroscopyCollection
    \/ AnalyseSeries
    \/ FileDone

Spec == Init /\ [][Next]_vars

(***************************************************************************)
(* Properties of a run                                                     *)
(***************************************************************************)

Last(s) == s[Len(s)]

\* the (item, series) pairs of the dataset
Pairs ==
    UNION {{<<i, s>> : s \in 0..(dataset[i].nseries - 1)} :
             i \in DOMAIN dataset}

\* join(output_dir, relpath(i), "series_{s:03d}_annotation.png")
ExpectedPath(q) ==
    args.output_dir \o dataset[q[1]].relpath \o
    <<"series_" \o Format03d(q[2]) \o "_annotation.png">>

WriteIndexes == {k \in DOMAIN trace : trace[k].ev = "write"}

\* names of annotation files of series numbers below ten
AnnotationNames == {AnnotationName(s) : s \in 0..9}

AnnotationFiles ==
    {p \in DOMAIN files : Len(p) > 0 /\ Last(p) \in AnnotationNames}

\* what the run has written when main returns: one annotation per pair of
\* the dataset, at its path, and nothing else
WrittenExactly ==
    /\ \A q \in Pairs :
         /\ Cardinality({k \in WriteIndexes :
                           trace[k].path = ExpectedPath(q)}) = 1
         /\ ExpectedPath(q) \in DOMAIN files
         /\ files[ExpectedPath(q)] = "annotation"
    /\ \A k \in WriteIndexes :
         \E q \in Pairs : /\ trace[k].path = ExpectedPath(q)
                          /\ trace[k].item = dataset[q[1]].relpath

\* C1 as amended: when main has run to completion on a directory, the run
\* has written exactly one annotation file for every item and series of
\* the dataset, at join(output_dir, relpath, "series_{s:03d}_annotation.png"),
\* and has written no annotation file for any other pair.
C1_WrittenExactly == pc = "done" => WrittenExactly

\* C1 as stated: ... and no annotation file exists for any pair that is
\* not in the dataset.
C1_NoOtherAnnotationExists ==
    pc = "done" =>
        /\ WrittenExactly
        /\ \A p \in AnnotationFiles : \E q \in Pairs : p = ExpectedPath(q)

C1_Witness ==
    /\ pc = "done"
    /\ Len(dataset) = 2
    /\ Cardinality(WriteIndexes) >= 3
    /\ fs0.files # <<>>

\* C3: the log file is audit.log inside output_dir; the log is configured
\* and "Script name" and "Script version" are logged before anything is
\* done for a dataset item; an item's "Analysing file" entry is logged
\* before its collection is loaded and before any of its annotations is
\* written.
C3_AuditLogOrder ==
    /\ logFile # <<>> =>
         /\ logFile = args.output_dir \o <<"audit.log">>
         /\ logFile \in DOMAIN files
    /\ \A k \in DOMAIN trace :
         trace[k].item # <<>> =>
            /\ \E a \in 1..(k - 1) :
                 /\ trace[a].ev = "config_log"
                 /\ \E b \in (a + 1)..(k - 1) :
                      /\ trace[b] = Event("log", <<>>, <<"Script name">>)
                      /\ \E c \in (b + 1)..(k - 1) :
                           trace[c] =
                             Event("log", <<>>, <<"Script version">>)
            /\ Len(log) >= 2
            /\ log[1] = <<"Script name">>
            /\ log[2] = <<"Script version">>
    /\ \A k \in DOMAIN trace :
         trace[k].ev \in {"load", "write"} =>
            /\ \E j \in 1..(k - 1) :
                 trace[j] = Event("log", trace[k].item,
                                  <<"Analysing file">> \o trace[k].item)
            /\ \E j \in DOMAIN log :
                 log[j] = <<"Analysing file">> \o trace[k].item

C3_Witness ==
    /\ pc = "series"
    /\ itemIdx = 2
    /\ \E k \in WriteIndexes : trace[k].item = dataset[2].relpath

DatasetPositions == {"dataset", "item", "file", "load", "series", "done"}

C5_DebugSettings ==
    logFile # <<>> =>
        /\ (autoWriteOn = FALSE) <=> ~args.debug
        /\ logLevel = IF args.debug THEN "DEBUG" ELSE "INFO"

C5_Witness ==
    /\ pc = "done"
    /\ args.debug
    /\ autoWriteOn
    /\ Len(trace) > 6

RECURSIVE ExpectedFrom(_)
\* the effects of analysing the items from position i on, in order
ExpectedFrom(i) ==
    IF i > Len(dataset) THEN <<>>
    ELSE LET rel == dataset[i].relpath
             dir == args.output_dir \o rel
         IN  << Event("item_dir", rel, dir),
                Event("log", rel, <<"Analysing file">> \o rel),
                Event("load", rel, BackendEntry(rel)) >>
             \o [k \in 1..dataset[i].nseries |->
                   Event("write", rel, ExpectedPath(<<i, k - 1>>))]
             \o ExpectedFrom(i + 1)

ItemEvents == SelectSeq(trace, LAMBDA e : e.item # <<>>)

ItemEventsDone ==
    IF ItemEvents # <<>> /\ Last(ItemEvents).ev = "raise"
    THEN SubSeq(ItemEvents, 1, Len(ItemEvents) - 1)
    ELSE ItemEvents

Stopped == {"crashed", "done", "argerror"}

\* C7: items are processed one after another in the order of
\* dataset.identifiers and series in the order of the collection's series;
\* a failure stops the run where it happens: what was written before stays
\* in place and nothing is done for any later series or item.
C7_SequentialNoRecovery ==
    /\ [](/\ IsPrefix(ItemEventsDone, ExpectedFrom(1))
          /\ pc = "done" => ItemEventsDone = ExpectedFrom(1)
          /\ \A k \in DOMAIN trace :
               trace[k].ev = "raise" => k = Len(trace) /\ pc = "crashed"
          /\ pc = "crashed" => trace # <<>> /\ Last(trace).ev = "raise"
          /\ \A k \in WriteIndexes :
               /\ trace[k].path \in DOMAIN files
               /\ files[trace[k].path] = "annotation")
    /\ [][pc \notin Stopped]_vars

C7_Witness ==
    /\ pc = "crashed"
    /\ itemIdx = 2
    /\ Cardinality(WriteIndexes) = 3

\* C9: within one run no annotation path is written twice, and the paths
\* of distinct (item, series) pairs of the dataset differ.
C9_NoPathWrittenTwice ==
    /\ \A j, k \in WriteIndexes : j # k => trace[j].path # trace[k].path
    /\ \A q, r \in Pairs :
         q # r =>
            AnnotationFileName(
                ItemOutputPath(args.output_dir, dataset[q[1]].relpath), q[2])
            # AnnotationFileName(
                ItemOutputPath(args.output_dir, dataset[r[1]].relpath), r[2])

C9_Witness ==
    /\ pc = "done"
    /\ Cardinality(WriteIndexes) = 4

Created == (dirs \ fs0.dirs) \cup (DOMAIN files \ DOMAIN fs0.files)

\* C10: everything the program creates lies under the output_dir given on
\* the command line: the log, the item directories, the annotations, the
\* directory AutoName.directory points to while an item is analysed (the
\* item's own output directory) and the backend directory.
C10_AllUnderOutputDir ==
    /\ \A p \in Created : IsPrefix(args.output_dir, p)
    /\ logFile # <<>> => IsPrefix(args.output_dir, logFile)
    /\ pc \in {"load", "series"} =>
         /\ autoNameDir = itemDir
         /\ IsPrefix(args.output_dir, autoNameDir)

(***************************************************************************)
(* Properties of safe_mkdir                                                *)
(***************************************************************************)

\* the path itself and the directories above it
Ancestors(p) == {SubSeq(p, 1, k) : k \in 1..Len(p)}

\* C6: safe_mkdir creates the directory with all its missing parents and
\* is idempotent: when it returns normally the path is a directory; on an
\* existing directory it returns normally and changes nothing; in every
\* other case the OSError is raised, in particular when the path exists
\* and is not a directory and when the error is not EEXIST.
C6_SafeMkdir ==
    mk.path # <<>> =>
        /\ mk.before \subseteq dirs
        /\ dirs \subseteq mk.before \cup Ancestors(mk.path)
        /\ WellFormed(dirs, files)
        /\ mk.raised = "none" =>
             /\ mk.path \in dirs
             /\ dirs = mk.before \cup Ancestors(mk.path)
        /\ mk.path \in mk.before => mk.raised = "none" /\ dirs = mk.before
        /\ mk.path \in DOMAIN files =>
             mk.raised = "EEXIST" /\ dirs = mk.before
        /\ mk.raised # "none" <=> mk.path \notin dirs
        /\ (/\ mk.path \notin mk.before
            /\ \E q \in Ancestors(mk.path) :
                 q = mk.fail /\ ~Exists(mk.before, files, q)
                 /\ \A a \in Ancestors(q) : a \notin DOMAIN files)
           => mk.raised = "EACCES"
        /\ (\E q \in Ancestors(mk.path) \ {mk.path} : q \in DOMAIN files)
           => mk.raised = "ENOTDIR"

C6_Witness ==
    /\ mk.path = Chain(3)
    /\ mk.before = {}
    /\ mk.raised = "none"
    /\ Chain(2) \in dirs

(***************************************************************************)
(* SpecImage: one call of analyse_image                                    *)
(*                                                                         *)
(* An image is one row of pixels.  The library's float arithmetic is not   *)
(* modelled: smooth_gaussian yields any image of the bounded set below     *)
(* whose values lie between the least and the greatest value of its        *)
(* argument, as a Gaussian average does.                                   *)
(***************************************************************************)

NumBlocks == 5
BlockLen == 3

Sigma == 5
Cutoff == 30
MinSize == 5
DiskRadius == 2

Width == NumBlocks * BlockLen

\* the images that are constant on each block of BlockLen pixels
BlockImages(levels) ==
    {[k \in 1..Width |-> b[((k - 1) \div BlockLen) + 1]] :
        b \in [1..NumBlocks -> levels]}

RawLevels == {0, 200}

Min(S) == CHOOSE x \in S : \A y \in S : x <= y

Max(S) == CHOOSE x \in S : \A y \in S : x >= y

Values(img) == {img[k] : k \in DOMAIN img}

\* normalise(image) * 255: the values scaled to 0..255; a flat image
\* becomes all 255 when its value is positive and all 0 otherwise
Normalise255(img) ==
    LET lo == Min(Values(img))
        hi == Max(Values(img))
    IN  IF hi = lo
        THEN [k \in DOMAIN img |-> IF lo > 0 THEN 255 ELSE 0]
        ELSE [k \in DOMAIN img |-> ((img[k] - lo) * 255) \div (hi - lo)]

\* AnnotatedImage.from_grayscale(image): a canvas showing the image, with
\* no region masked yet
FromGrayscale(img) == [base |-> img, masks |-> <<>>]

\* the outcomes of smooth_gaussian(image, sigma) that the model considers:
\* values at and just above the cutoff, within the range of the argument
SmoothGaussian(img, sigma) ==
    LET lo == Min(Values(img))
        hi == Max(Values(img))
        levels == {v \in {Cutoff, Cutoff + 1} : lo <= v /\ v <= hi}
    IN  IF hi = lo THEN {img} ELSE BlockImages(levels)

\* threshold_abs(image, cutoff): image > cutoff
ThresholdAbs(img, cutoff) == [k \in DOMAIN img |-> img[k] > cutoff]

\* erode_binary(image): a pixel stays when it and its neighbours are set;
\* beyond the border every pixel counts as set
ErodeBinary(img) ==
    [k \in DOMAIN img |->
        /\ img[k]
        /\ k = 1 \/ img[k - 1]
        /\ k = Len(img) \/ img[k + 1]]

\* the first and the last pixel of the run of set pixels that holds k
RunLo(img, k) ==
    CHOOSE j \in 1..k : /\ \A m \in j..k : img[m]
                        /\ j = 1 \/ ~img[j - 1]

RunHi(img, k) ==
    CHOOSE j \in k..Len(img) : /\ \A m \in k..j : img[m]
                               /\ j = Len(img) \/ ~img[j + 1]

\* remove_small_objects(image, min_size): connected objects of fewer than
\* min_size pixels are cleared
RemoveSmallObjects(img, min_size) ==
    [k \in DOMAIN img |->
        img[k] /\ RunHi(img, k) - RunLo(img, k) + 1 >= min_size]

\* dilate_binary(image, disk(radius)): a pixel is set when a set pixel lies
\* within the radius
DilateBinary(img, radius) ==
    [k \in DOMAIN img |->
        \E j \in DOMAIN img : /\ img[j]
                              /\ j - k <= radius
                              /\ k - j <= radius]

\* connected_components(image, background=0): each pixel's label, 0 for
\* the background and 1, 2, ... for the connected regions
ConnectedComponents(img) ==
    [k \in DOMAIN img |->
        IF ~img[k] THEN 0
        ELSE Cardinality({j \in 1..k : img[j] /\ (j = 1 \/ ~img[j - 1])})]

\* segmentation.identifiers: the labels other than the background
Identifiers(seg) == {seg[k] : k \in DOMAIN seg} \ {0}

\* segmentation.region_by_identifier(i): the pixels labelled i
RegionByIdentifier(seg, i) == {k \in DOMAIN seg : seg[k] = i}

\* region.convex_hull: on a row, the pixels from the first to the last
ConvexHull(region) == Min(region)..Max(region)

\* convex_hull.inner.border.dilate(): the border of the hull's interior,
\* dilated by one pixel
Outline(hull) ==
    LET inner == {k \in hull : k - 1 \in hull /\ k + 1 \in hull}
        border == {k \in inner : k - 1 \notin inner \/ k + 1 \notin inner}
    IN  {k \in 1..Width : \E b \in border : k - b <= 1 /\ b - k <= 1}

\* pretty_color_from_identifier(i): a colour determined by the identifier
PrettyColorFromIdentifier(i) == [pretty_color_of |-> i]

\* a plausible slip: the canvas is started afresh for every region
MaskRegionRestartsCanvas(c, outline, color) ==
    [c EXCEPT !.masks = <<[region |-> outline, color |-> color]>>]

\* canvas.mask_region(outline, color): the region is painted on the canvas
MaskRegion(c, outline, color) ==
    [c EXCEPT !.masks = Append(@, [region |-> outline, color |-> color])]

\* a plausible slip: small objects are removed before the erosion
StatementsSwapped ==
    <<"normalise", "from_grayscale", "smooth_gaussian", "threshold_abs",
      "remove_small_objects", "erode_binary", "dilate_binary",
      "connected_components", "for">>

\* the statements of analyse_image before its loop, in program order
Statements ==
    <<"normalise", "from_grayscale", "smooth_gaussian", "threshold_abs",
      "erode_binary", "remove_small_objects", "dilate_binary",
      "connected_components", "for">>

\* the statement that follows statement st
After(st) ==
    LET k == CHOOSE j \in DOMAIN Statements : Statements[j] = st
    IN  Statements[k + 1]

Call(op, arg) == [op |-> op, arg |-> arg]

\* analyse_image is entered with an image of the bounded set
InitImage ==
    /\ pc = "normalise"
    /\ raw \in BlockImages(RawLevels)
    /\ image = raw
    /\ canvas = [base |-> <<>>, masks |-> <<>>]
    /\ segmentation = <<>>
    /\ todo = {}
    /\ ops = <<>>
    /\ dirs = {}
    /\ files = <<>>
    /\ mk = NullMk
    /\ NullRun

ImageFrame == UNCHANGED <<dirs, files, mk>> /\ UNCHANGED runVars

\* image = normalise(image) * 255
StepNormalise ==
    /\ pc = "normalise"
    /\ image' = Normalise255(image)
    /\ ops' = Append(ops, Call("normalise", 255))
    /\ pc' = After("normalise")
    /\ UNCHANGED <<raw, canvas, segmentation, todo>>
    /\ ImageFrame

\* canvas = AnnotatedImage.from_grayscale(image)
StepCanvas ==
    /\ pc = "from_grayscale"
    /\ canvas' = FromGrayscale(image)
    /\ ops' = Append(ops, Call("from_grayscale", 0))
    /\ pc' = After("from_grayscale")
    /\ UNCHANGED <<raw, image, segmentation, todo>>
    /\ ImageFrame

\* image = smooth_gaussian(image.astype(float), 5)
StepSmooth ==
    /\ pc = "smooth_gaussian"
    /\ image' \in SmoothGaussian(image, Sigma)
    /\ ops' = Append(ops, Call("smooth_gaussian", Sigma))
    /\ pc' = After("smooth_gaussian")
    /\ UNCHANGED <<raw, canvas, segmentation, todo>>
    /\ ImageFrame

\* image = threshold_abs(image, 30)
StepThreshold ==
    /\ pc = "threshold_abs"
    /\ image' = ThresholdAbs(image, Cutoff)
    /\ ops' = Append(ops, Call("threshold_abs", Cutoff))
    /\ pc' = After("threshold_abs")
    /\ UNCHANGED <<raw, canvas, segmentation, todo>>
    /\ ImageFrame

\* image = erode_binary(image)
StepErode ==
    /\ pc = "erode_binary"
    /\ image' = ErodeBinary(image)
    /\ ops' = Append(ops, Call("erode_binary", 0))
    /\ pc' = After("erode_binary")
    /\ UNCHANGED <<raw, canvas, segmentation, todo>>
    /\ ImageFrame

\* image = remove_small_objects(image, 5)
StepRemoveSmall ==
    /\ pc = "remove_small_objects"
    /\ image' = RemoveSmallObjects(image, MinSize)
    /\ ops' = Append(ops, Call("remove_small_objects", MinSize))
    /\ pc' = After("remove_small_objects")
    /\ UNCHANGED <<raw, canvas, segmentation, todo>>
    /\ ImageFrame

\* salem = skimage.morphology.disk(2); image = dilate_binary(image, salem)
StepDilate ==
    /\ pc = "dilate_binary"
    /\ image' = DilateBinary(image, DiskRadius)
    /\ ops' = Append(ops, Call("dilate_binary", DiskRadius))
    /\ pc' = After("dilate_binary")
    /\ UNCHANGED <<raw, canvas, segmentation, todo>>
    /\ ImageFrame

\* segmentation = connected_components(image, background=0)
StepLabel ==
    /\ pc = "connected_components"
    /\ segmentation' = ConnectedComponents(image)
    /\ todo' = Identifiers(segmentation')
    /\ ops' = Append(ops, Call("connected_components", 0))
    /\ pc' = After("connected_components")
    /\ UNCHANGED <<raw, image, canvas>>
    /\ ImageFrame

\* one pass of "for i in segmentation.identifiers"; the identifiers are a
\* set, visited in an order the language does not fix
StepOutline ==
    /\ pc = "for"
    /\ \E i \in todo :
         LET color == PrettyColorFromIdentifier(i)
             region == RegionByIdentifier(segmentation, i)
             outline == Outline(ConvexHull(region))
         IN  /\ canvas' = MaskRegion(canvas, outline, color)
             /\ ops' = Append(ops, Call("mask_region", i))
             /\ todo' = todo \ {i}
    /\ UNCHANGED <<pc, raw, image, segmentation>>
    /\ ImageFrame

\* return canvas
StepReturn ==
    /\ pc = "for"
    /\ todo = {}
    /\ pc' = "return"
    /\ UNCHANGED <<raw, image, canvas, segmentation, todo, ops>>
    /\ ImageFrame

NextImage ==
    \/ StepNormalise
    \/ StepCanvas
    \/ StepSmooth
    \/ StepThreshold
    \/ StepErode
    \/ StepRemoveSmall
    \/ StepDilate
    \/ StepLabel
    \/ StepOutline
    \/ StepReturn

SpecImage == InitImage /\ [][NextImage]_vars

(***************************************************************************)
(* Properties of analyse_image                                             *)
(***************************************************************************)

\* the calls analyse_image makes on the image, in order, with their
\* parameters
Pipeline ==
    <<Call("normalise", 255), Call("smooth_gaussian", 5),
      Call("threshold_abs", 30), Call("erode_binary", 0),
      Call("remove_small_objects", 5), Call("dilate_binary", 2),
      Call("connected_components", 0)>>

\* the calls made so far, the creation of the canvas left out
ImageOps == SelectSeq(ops, LAMBDA c : c.op # "from_grayscale")

\* the segmentation a smoothed image sm leads to
SegmentationOf(sm) ==
    ConnectedComponents(
        DilateBinary(
            RemoveSmallObjects(ErodeBinary(ThresholdAbs(sm, 30)), 5), 2))

\* C2: analyse_image takes every image through the same steps in the same
\* order with the same parameters: normalise to 0..255, Gaussian smoothing
\* (sigma 5), threshold (> 30), erosion, small-object removal (min size 5),
\* dilation with disk(2), labelling with background 0, then one outline
\* per labelled region; no step is skipped, repeated or reordered.
C2_FixedPipeline ==
    LET n == IF Len(ImageOps) < Len(Pipeline) THEN Len(ImageOps)
             ELSE Len(Pipeline)
        loop == (Len(Pipeline) + 1)..Len(ImageOps)
    IN  /\ SubSeq(ImageOps, 1, n) = SubSeq(Pipeline, 1, n)
        /\ \A k \in loop :
             /\ ImageOps[k].op = "mask_region"
             /\ ImageOps[k].arg \in Identifiers(segmentation)
             /\ \A j \in loop : j # k => ImageOps[j].arg # ImageOps[k].arg
        /\ pc = "return" =>
             /\ Len(ImageOps) =
                  Len(Pipeline) + Cardinality(Identifiers(segmentation))
             /\ \E sm \in SmoothGaussian(Normalise255(raw), 5) :
                  segmentation = SegmentationOf(sm)

C2_Witness ==
    /\ pc = "return"
    /\ Cardinality(Identifiers(segmentation)) = 2
    /\ Len(ops) = 10

\* the mask the loop paints for identifier i
MaskOf(i) ==
    [region |-> Outline(ConvexHull(RegionByIdentifier(segmentation, i))),
     color |-> PrettyColorFromIdentifier(i)]

\* C8: the canvas is made from the normalised grey image before the
\* smoothing and the threshold and is never replaced; the loop masks one
\* outline onto it for each identifier of the segmentation, in a colour
\* that depends on the identifier alone; with no region the canvas is the
\* unmodified grey image.
C8_Canvas ==
    /\ \A j, k \in DOMAIN ops :
         ops[j].op = "from_grayscale" =>
            /\ ops[k].op = "from_grayscale" => j = k
            /\ ops[k].op \in {"smooth_gaussian", "threshold_abs"} => j < k
    /\ pc \notin {"normalise", "from_grayscale"} =>
         canvas.base = Normalise255(raw)
    /\ pc \notin {"for", "return"} => canvas.masks = <<>>
    /\ pc \in {"for", "return"} =>
         /\ Len(canvas.masks) =
              Cardinality(Identifiers(segmentation) \ todo)
         /\ \A i \in Identifiers(segmentation) \ todo :
              Cardinality({m \in DOMAIN canvas.masks :
                             canvas.masks[m] = MaskOf(i)}) = 1
         /\ \A i \in todo :
              \A m \in DOMAIN canvas.masks :
                 canvas.masks[m].color # PrettyColorFromIdentifier(i)
    /\ pc = "return" =>
         /\ todo = {}
         /\ Identifiers(segmentation) = {} =>
              canvas = [base |-> Normalise255(raw), masks |-> <<>>]

C8_Witness ==
    /\ pc = "return"
    /\ Len(canvas.masks) = 2
    /\ canvas.masks[1].region # canvas.masks[2].region

====
